---- MODULE Spec2Model ----
(***************************************************************************)
(* The interview-preparation agents: the ProgressTrackingAgent (answer     *)
(* tracking, weak areas, performance report) and the parsing step of       *)
(* generateQuestions.  Text is modelled as a sequence of one-character     *)
(* strings, so that split, trim, startsWith and toLowerCase are computed   *)
(* character by character as the JavaScript does.                          *)
(***************************************************************************)
EXTENDS Integers, Sequences, FiniteSets, TLC

\* Number of trackAnswer calls explored.
MaxAnswers == 4

\* The thresholds of the ratio tests, in tenths (0.7, 0.6, 0.8).
WeakAreaTenths == 7
WeakFocusTenths == 6
PracticeTenths == 8

(***************************************************************************)
(* Strings                                                                 *)
(***************************************************************************)
\* The characters String.prototype.trim removes, among those the inputs use.
WhiteSpace == {" ", "\n", "\t", "\r"}

UpperCase == <<"A", "B", "C", "D", "E", "F", "G", "H", "I", "J", "K", "L", "M", "N", "O", "P", "Q", "R", "S", "T", "U", "V", "W", "X", "Y", "Z">>
LowerCase == <<"a", "b", "c", "d", "e", "f", "g", "h", "i", "j", "k", "l", "m", "n", "o", "p", "q", "r", "s", "t", "u", "v", "w", "x", "y", "z">>

toLowerCase(s) ==
    [i \in 1..Len(s) |->
        IF \E k \in 1..Len(UpperCase) : UpperCase[k] = s[i]
        THEN LowerCase[CHOOSE k \in 1..Len(UpperCase) : UpperCase[k] = s[i]]
        ELSE s[i]]

startsWith(s, prefix) ==
    Len(prefix) <= Len(s) /\ SubSeq(s, 1, Len(prefix)) = prefix

\* String.prototype.split(sep) for a non-empty separator: the pieces between
\* the leftmost non-overlapping occurrences of sep, empty pieces included.
RECURSIVE splitFrom(_, _, _, _)
splitFrom(s, sep, start, i) ==
    IF i + Len(sep) - 1 > Len(s)
    THEN << SubSeq(s, start, Len(s)) >>
    ELSE IF SubSeq(s, i, i + Len(sep) - 1) = sep
         THEN << SubSeq(s, start, i - 1) >>
              \o splitFrom(s, sep, i + Len(sep), i + Len(sep))
         ELSE splitFrom(s, sep, start, i + 1)

split(s, sep) == splitFrom(s, sep, 1, 1)

\* Array.prototype.join(sep).
RECURSIVE join(_, _)
join(parts, sep) ==
    IF parts = << >> THEN << >>
    ELSE IF Len(parts) = 1 THEN parts[1]
    ELSE parts[1] \o sep \o join(Tail(parts), sep)

RECURSIVE trimStart(_)
trimStart(s) ==
    IF s # << >> /\ Head(s) \in WhiteSpace THEN trimStart(Tail(s)) ELSE s

RECURSIVE trimEnd(_)
trimEnd(s) ==
    IF s # << >> /\ s[Len(s)] \in WhiteSpace
    THEN trimEnd(SubSeq(s, 1, Len(s) - 1)) ELSE s

trim(s) == trimEnd(trimStart(s))

(***************************************************************************)
(* JavaScript values                                                       *)
(***************************************************************************)
\* A number, or the string Number.prototype.toFixed(2) returns, as hundredths.
JSNumber(n) == [type |-> "number", nan |-> FALSE, hundredths |-> 100 * n]

\* (num / den).toFixed(2) for num, den >= 0: "NaN" for 0 / 0, else the value
\* rounded to two decimals (a tie rounds up).
toFixed2(num, den) ==
    IF den = 0
    THEN [type |-> "string", nan |-> TRUE, hundredths |-> 0]
    ELSE [type |-> "string", nan |-> FALSE,
          hundredths |-> (200 * num + den) \div (2 * den)]

\* ((correct / total) * 100).toFixed(2)
percentage(correct, total) == toFixed2(100 * correct, total)

\* A plain object used as a map, and a Set: sequences in insertion order.
hasOwn(obj, k) == \E i \in 1..Len(obj) : obj[i].key = k
indexOf(obj, k) == CHOOSE i \in 1..Len(obj) : obj[i].key = k
get(obj, k) == obj[indexOf(obj, k)]

setHas(s, x) == \E i \in 1..Len(s) : s[i] = x
setAdd(s, x) == IF setHas(s, x) THEN s ELSE Append(s, x)

\* Keys every plain object inherits from Object.prototype with a truthy value:
\* obj[key] is truthy although obj has no own entry for key.
ObjectPrototypeKeys ==
    {"constructor", "__proto__", "toString", "valueOf", "hasOwnProperty"}

(***************************************************************************)
(* ProgressTrackingAgent                                                   *)
(***************************************************************************)
technicalTerms ==
    << <<"a", "r", "r", "a", "y">>, <<"f", "u", "n", "c", "t", "i", "o", "n">>, <<"c", "l", "a", "s", "s">>, <<"o", "b", "j", "e", "c", "t">>, <<"l", "o", "o", "p">>,
       <<"v", "a", "r", "i", "a", "b", "l", "e">>, <<"r", "e", "c", "u", "r", "s", "i", "o", "n">>, <<"i", "n", "h", "e", "r", "i", "t", "a", "n", "c", "e">>, <<"a", "s", "y", "n", "c">>,
       <<"p", "r", "o", "m", "i", "s", "e">>, <<"c", "o", "m", "p", "o", "n", "e", "n", "t">>, <<"s", "t", "a", "t", "e">>, <<"p", "r", "o", "p", "s">>, <<"a", "p", "i">>,
       <<"d", "a", "t", "a", "b", "a", "s", "e">>, <<"a", "l", "g", "o", "r", "i", "t", "h", "m">> >>

RECURSIVE collectConcepts(_, _)
collectConcepts(words, concepts) ==
    IF words = << >> THEN concepts
    ELSE collectConcepts(Tail(words),
            IF setHas(technicalTerms, Head(words))
            THEN setAdd(concepts, Head(words)) ELSE concepts)

extractConcepts(question) ==
    collectConcepts(split(toLowerCase(question), << " " >>), << >>)

\* Mutation of countAnswer: the total is counted only in an else branch.
countAnswerElse(stats, isCorrect) ==
    [stats EXCEPT !.total = IF isCorrect THEN @ ELSE @ + 1,
                  !.correct = IF isCorrect THEN @ + 1 ELSE @]

\* x.total++; if (isCorrect) x.correct++;
countAnswer(stats, isCorrect) ==
    [stats EXCEPT !.total = @ + 1,
                  !.correct = IF isCorrect THEN @ + 1 ELSE @]

\* if (!obj[concept]) obj[concept] = {correct: 0, total: 0}; then count.
countConcept(obj, concept, isCorrect) ==
    LET o == IF hasOwn(obj, concept) THEN obj
             ELSE Append(obj, [key |-> concept, correct |-> 0, total |-> 0])
    IN  [o EXCEPT ![indexOf(o, concept)] = countAnswer(@, isCorrect)]

newTopicStats(topic) ==
    [key |-> topic, correct |-> 0, total |-> 0, weakAreas |-> << >>,
     conceptsTests |-> << >>, averageTime |-> JSNumber(0)]

RECURSIVE sum(_)
sum(times) == IF times = << >> THEN 0 ELSE Head(times) + sum(Tail(times))

calculateAverageTime(times) ==
    IF Len(times) > 0 THEN toFixed2(sum(times), Len(times)) ELSE JSNumber(0)

\* timeTaken = null is NullTime; if (timeTaken) is false for null and for 0.
NullTime == -1
truthy(timeTaken) == timeTaken # NullTime /\ timeTaken # 0

\* correct / total < 0.7
belowWeakThreshold(stats) == 10 * stats.correct < WeakAreaTenths * stats.total

\* The weak-area loop of an incorrect answer: each concept whose global ratio
\* is below the threshold is added to the global set and the topic's set.
RECURSIVE addWeakAreas(_, _, _, _)
addWeakAreas(global, ofTopic, mastery, concepts) ==
    IF concepts = << >> THEN [weakAreas |-> global, topicWeakAreas |-> ofTopic]
    ELSE LET c == Head(concepts)
             weak == belowWeakThreshold(get(mastery, c))
         IN  addWeakAreas(IF weak THEN setAdd(global, c) ELSE global,
                          IF weak THEN setAdd(ofTopic, c) ELSE ofTopic,
                          mastery, Tail(concepts))

\* The concepts.forEach of lines 164-177 for a topic that owns its stats.
RECURSIVE countConcepts(_, _, _, _)
countConcepts(mastery, tests, concepts, isCorrect) ==
    IF concepts = << >> THEN [conceptMastery |-> mastery, conceptsTests |-> tests]
    ELSE countConcepts(countConcept(mastery, Head(concepts), isCorrect),
                       countConcept(tests, Head(concepts), isCorrect),
                       Tail(concepts), isCorrect)

historyEvent(topic, question, isCorrect, evaluation, timeTaken, concepts, now) ==
    [topic |-> topic, question |-> question, isCorrect |-> isCorrect,
     evaluation |-> evaluation, timeTaken |-> timeTaken,
     concepts |-> concepts, timestamp |-> now]

\* The state of a new ProgressTrackingAgent().
newAgent ==
    [correctAnswers |-> 0, totalQuestions |-> 0, topicPerformance |-> << >>,
     weakAreas |-> << >>, questionHistory |-> << >>, conceptMastery |-> << >>,
     timeSpent |-> << >>]

\* this.totalQuestions++; if (isCorrect) this.correctAnswers++;
countOverall(t, isCorrect) ==
    [t EXCEPT !.totalQuestions = @ + 1,
              !.correctAnswers = IF isCorrect THEN @ + 1 ELSE @]

\* Mutation of updateWeakAreas: a correct answer drops the concepts whose
\* ratio has recovered.
updateWeakAreasRecovering(global, ofTopic, mastery, concepts, isCorrect) ==
    IF ~isCorrect
    THEN addWeakAreas(global, ofTopic, mastery, concepts)
    ELSE [weakAreas |->
              SelectSeq(global, LAMBDA c : belowWeakThreshold(get(mastery, c))),
          topicWeakAreas |->
              SelectSeq(ofTopic, LAMBDA c : belowWeakThreshold(get(mastery, c)))]

\* Lines 190-198: only an incorrect answer runs the weak-area loop.
updateWeakAreas(global, ofTopic, mastery, concepts, isCorrect) ==
    IF ~isCorrect
    THEN addWeakAreas(global, ofTopic, mastery, concepts)
    ELSE [weakAreas |-> global, topicWeakAreas |-> ofTopic]

\* trackAnswer when topicPerformance[topic] is the agent's own entry (created
\* here when absent).  The result is the agent after the call.
trackOwnTopic(t, topic, question, isCorrect, evaluation, timeTaken, now) ==
    LET t1 == countOverall(t, isCorrect)
        tp0 == IF hasOwn(t.topicPerformance, topic) THEN t.topicPerformance
               ELSE Append(t.topicPerformance, newTopicStats(topic))
        i == indexOf(tp0, topic)
        stats1 == countAnswer(tp0[i], isCorrect)
        ts0 == IF hasOwn(t.timeSpent, topic) THEN t.timeSpent
               ELSE Append(t.timeSpent, [key |-> topic, times |-> << >>])
        ts1 == IF truthy(timeTaken)
               THEN [ts0 EXCEPT ![indexOf(ts0, topic)].times = Append(@, timeTaken)]
               ELSE t.timeSpent
        stats2 == IF truthy(timeTaken)
                  THEN [stats1 EXCEPT !.averageTime =
                            calculateAverageTime(get(ts1, topic).times)]
                  ELSE stats1
        concepts == extractConcepts(question)
        counted == countConcepts(t.conceptMastery, stats2.conceptsTests,
                                 concepts, isCorrect)
        weak == updateWeakAreas(t.weakAreas, stats2.weakAreas,
                                counted.conceptMastery, concepts, isCorrect)
        stats3 == [stats2 EXCEPT !.conceptsTests = counted.conceptsTests,
                                 !.weakAreas = weak.topicWeakAreas]
    IN  [agent |->
            [t1 EXCEPT !.topicPerformance = [tp0 EXCEPT ![i] = stats3],
                       !.timeSpent = ts1,
                       !.conceptMastery = counted.conceptMastery,
                       !.questionHistory = Append(@,
                            historyEvent(topic, question, isCorrect, evaluation,
                                         timeTaken, concepts, now)),
                       !.weakAreas = weak.weakAreas],
         error |-> "none",
         objectWrites |-> {}]

\* trackAnswer when topic is a key the map objects inherit: topicPerformance[topic]
\* and timeSpent[topic] are truthy inherited objects (a function, or
\* Object.prototype), so no entry is created; the counters are written on that
\* object (undefined++ is NaN); timeSpent[topic].push is not a function (line
\* 158) and topicStats.conceptsTests is undefined (line 172), each a TypeError
\* that leaves the updates made so far in place.
trackInheritedTopic(t, topic, question, isCorrect, evaluation, timeTaken, now) ==
    LET t1 == countOverall(t, isCorrect)
        writes == {"total"} \cup (IF isCorrect THEN {"correct"} ELSE {})
        concepts == extractConcepts(question)
    IN  IF truthy(timeTaken)
        THEN [agent |-> t1, error |-> "TypeError", objectWrites |-> writes]
        ELSE IF concepts # << >>
        THEN [agent |-> [t1 EXCEPT !.conceptMastery =
                            countConcept(@, Head(concepts), isCorrect)],
              error |-> "TypeError", objectWrites |-> writes]
        ELSE [agent |-> [t1 EXCEPT !.questionHistory = Append(@,
                            historyEvent(topic, question, isCorrect, evaluation,
                                         timeTaken, concepts, now))],
              error |-> "none", objectWrites |-> writes]

trackAnswer(t, topic, question, isCorrect, evaluation, timeTaken, now) ==
    IF ~hasOwn(t.topicPerformance, topic) /\ topic \in ObjectPrototypeKeys
    THEN trackInheritedTopic(t, topic, question, isCorrect, evaluation, timeTaken, now)
    ELSE trackOwnTopic(t, topic, question, isCorrect, evaluation, timeTaken, now)

\* Mutation of belowWeakFocus: the weak-area threshold is reused.
belowWeakFocusSameThreshold(stats) ==
    10 * stats.correct < WeakAreaTenths * stats.total

\* mastery.correct / mastery.total < 0.6, and stats.correct / stats.total < 0.8
belowWeakFocus(stats) == 10 * stats.correct < WeakFocusTenths * stats.total
belowPractice(stats) == 10 * stats.correct < PracticeTenths * stats.total

recommendation(concept, type, stats) ==
    [concept |-> concept, type |-> type,
     mastery |-> percentage(stats.correct, stats.total)]

\* for (const concept of this.weakAreas): lines 270-279
weakRecommendations(t) ==
    LET listed == SelectSeq(t.weakAreas,
                    LAMBDA c : hasOwn(t.conceptMastery, c)
                               /\ belowWeakFocus(get(t.conceptMastery, c)))
    IN  [i \in 1..Len(listed) |->
            recommendation(listed[i], "weak", get(t.conceptMastery, listed[i]))]

\* for (const [concept, stats] of Object.entries(this.conceptMastery)): 282-290
practiceRecommendations(t) ==
    LET listed == SelectSeq(t.conceptMastery,
                    LAMBDA e : ~setHas(t.weakAreas, e.key) /\ belowPractice(e))
    IN  [i \in 1..Len(listed) |-> recommendation(listed[i].key, "practice", listed[i])]

\* Mutation of compareMastery: the operands are swapped.
compareMasteryDescending(a, b) == b.mastery.hundredths - a.mastery.hundredths

\* (a, b) => a.mastery - b.mastery, on the toFixed strings converted to numbers
compareMastery(a, b) == a.mastery.hundredths - b.mastery.hundredths

\* Array.prototype.sort with that comparator: a stable sort.
RECURSIVE insertSorted(_, _)
insertSorted(sorted, r) ==
    IF sorted = << >> THEN << r >>
    ELSE IF compareMastery(Head(sorted), r) <= 0
         THEN << Head(sorted) >> \o insertSorted(Tail(sorted), r)
         ELSE << r >> \o sorted

RECURSIVE sortRecommendations(_)
sortRecommendations(recs) ==
    IF recs = << >> THEN << >>
    ELSE insertSorted(sortRecommendations(SubSeq(recs, 1, Len(recs) - 1)),
                      recs[Len(recs)])

generateRecommendedFocus(t) ==
    sortRecommendations(weakRecommendations(t) \o practiceRecommendations(t))

\* Lines 203-207, 216-224 and 227-233 of getPerformanceReport.
reportOverall(t) ==
    [correct |-> t.correctAnswers, total |-> t.totalQuestions,
     percentage |-> percentage(t.correctAnswers, t.totalQuestions)]

reportTopicWise(t) ==
    [i \in 1..Len(t.topicPerformance) |->
        LET stats == t.topicPerformance[i]
        IN  [key |-> stats.key, correct |-> stats.correct, total |-> stats.total,
             percentage |-> percentage(stats.correct, stats.total),
             weakAreas |-> stats.weakAreas,
             averageTime |-> stats.averageTime]]

reportConceptMastery(t) ==
    [i \in 1..Len(t.conceptMastery) |->
        LET stats == t.conceptMastery[i]
        IN  [key |-> stats.key, correct |-> stats.correct, total |-> stats.total,
             percentage |-> percentage(stats.correct, stats.total)]]

\* Mutation of getPerformanceReport: timeAnalysis is filled from the history.
getPerformanceReportTimed(t) ==
    [overall |-> reportOverall(t),
     topicWise |-> reportTopicWise(t),
     conceptMastery |-> reportConceptMastery(t),
     weakAreas |-> t.weakAreas,
     timeAnalysis |-> [i \in 1..Len(t.questionHistory) |->
                          t.questionHistory[i].timestamp],
     recommendedFocus |-> generateRecommendedFocus(t)]

getPerformanceReport(t) ==
    [overall |-> reportOverall(t),
     topicWise |-> reportTopicWise(t),
     conceptMastery |-> reportConceptMastery(t),
     weakAreas |-> t.weakAreas,
     timeAnalysis |-> << >>,
     recommendedFocus |-> generateRecommendedFocus(t)]

(***************************************************************************)
(* generateQuestions: parsing the response (lines 338-360)                 *)
(***************************************************************************)
\* Number of chunks an explored response text is made of.
MaxChunks == 4

QuestionDelimiter == <<"Q", "u", "e", "s", "t", "i", "o", "n", ":", " ">>
ModelAnswerDelimiter == <<"M", "o", "d", "e", "l", " ", "A", "n", "s", "w", "e", "r", ":">>
CorrectPrefix == <<"C", "o", "r", "r", "e", "c", "t", ":">>

\* type.toLowerCase() === "mcq" ? "multiple-choice" : "theoretical"
questionTypeOf(type) ==
    IF toLowerCase(type) = <<"m", "c", "q">> THEN "multiple-choice" ELSE "theoretical"

\* The predicate of .filter(block => block.trim()), also used for lines.
nonBlank(s) == trim(s) # << >>

\* Mutation of questionBlocks: the filter keeps every non-empty block.
questionBlocksUntrimmed(content) ==
    SelectSeq(split(content, QuestionDelimiter), LAMBDA block : block # << >>)

\* content.split(/Question: /).filter(block => block.trim())
questionBlocks(content) ==
    SelectSeq(split(content, QuestionDelimiter), nonBlank)

\* Mutation of slice: the end index is taken as inclusive of one line less.
sliceShort(lines, from, to) ==
    SubSeq(lines, from + 1, IF to - 1 < Len(lines) THEN to - 1 ELSE Len(lines))

\* lines.slice(1, 5)
slice(lines, from, to) ==
    SubSeq(lines, from + 1, IF to < Len(lines) THEN to ELSE Len(lines))

\* lines.find(line => line.startsWith('Correct:')): << >> is undefined.
findCorrectLine(lines) ==
    LET found == SelectSeq(lines, LAMBDA line : startsWith(line, CorrectPrefix))
    IN  IF found = << >> THEN << >> ELSE << found[1] >>

\* Mutation of correctLabel: everything after the first colon is kept.
correctLabelRest(parts) == trim(join(Tail(parts), << ":" >>))

\* .split(':')[1].trim() of the line found: the part between the first colon
\* and the next one.
correctLabel(parts) == trim(parts[2])

\* One MCQ block (lines 345-349).  `correct` is << >> when undefined, else
\* << label >>.  Reading a property of undefined raises a TypeError.
parseMcqBlock(block) ==
    LET lines == SelectSeq(split(block, << "\n" >>), nonBlank)
        line == findCorrectLine(lines)
        parts == IF line = << >> THEN << >> ELSE split(line[1], << ":" >>)
    IN  IF lines = << >> \/ (line # << >> /\ Len(parts) < 2)
        THEN [error |-> "TypeError", record |-> << >>]
        ELSE [error |-> "none",
              record |-> <<
                [question |-> trim(lines[1]),
                 options |-> [i \in 1..Len(slice(lines, 1, 5)) |->
                                 trim(slice(lines, 1, 5)[i])],
                 correct |-> IF line = << >> THEN << >>
                             ELSE << correctLabel(parts) >>] >>]

\* Mutation of parseTheoryBlock: only the part up to the next delimiter is
\* taken as the answer (answerParts[0]).
parseTheoryBlockFirstPart(block) ==
    LET parts == split(block, ModelAnswerDelimiter)
    IN  [error |-> "none",
         record |-> <<
            [question |-> trim(parts[1]),
             modelAnswer |-> IF Len(parts) > 1 THEN trim(parts[2]) ELSE << >>] >>]

\* One theory block (lines 354-356).
parseTheoryBlock(block) ==
    LET parts == split(block, ModelAnswerDelimiter)
    IN  [error |-> "none",
         record |-> <<
            [question |-> trim(parts[1]),
             modelAnswer |-> trim(join(Tail(parts), ModelAnswerDelimiter))] >>]

\* The for loop over the blocks: the first error ends the function.
RECURSIVE parseBlocks(_, _, _)
parseBlocks(blocks, questionType, questions) ==
    IF blocks = << >> THEN [error |-> "none", questions |-> questions]
    ELSE LET r == IF questionType = "multiple-choice"
                  THEN parseMcqBlock(Head(blocks))
                  ELSE parseTheoryBlock(Head(blocks))
         IN  IF r.error # "none"
             THEN [error |-> r.error, questions |-> << >>]
             ELSE parseBlocks(Tail(blocks), questionType, questions \o r.record)

parseQuestions(content, type) ==
    parseBlocks(questionBlocks(content), questionTypeOf(type), << >>)

(***************************************************************************)
(* The state machines                                                      *)
(***************************************************************************)
VARIABLES
    correctAnswers, totalQuestions, topicPerformance, weakAreas,
    questionHistory, conceptMastery, timeSpent,   \* the agent's fields
    objectWrites,   \* properties written on an inherited object (all NaN)
    error,          \* how the last call ended: "none" or "TypeError"
    returned,       \* << report >> after getPerformanceReport, else << >>
    calls,          \* the arguments of the trackAnswer calls made so far
    clock,          \* new Date() of the next call
    content, type,  \* generateQuestions: the response text and the type asked
    questions,      \* the questions it returned
    parseError,     \* "none", or the error its parsing raised
    phase,          \* "response" before the parsing, "parsed" after it
    asked,          \* the questions a well-formed response was written from
    questionText,   \* extractConcepts: the question given
    tagged,         \* << concepts >> once extractConcepts returned, else << >>
    pc,             \* mainProgram: where the menu loop stands
    rlClosed,       \* whether rl.close() has been called
    message,        \* the last thing printed for the user
    sessionLength,  \* questions.length of the running session
    index,          \* the loop variable i of the running session
    score,          \* startInterview's score
    answered        \* answers evaluated in interview sessions so far

agentVars == << correctAnswers, totalQuestions, topicPerformance, weakAreas,
                questionHistory, conceptMastery, timeSpent >>
vars == << correctAnswers, totalQuestions, topicPerformance, weakAreas,
           questionHistory, conceptMastery, timeSpent,
           objectWrites, error, returned, calls, clock,
           content, type, questions, parseError, phase, asked,
           questionText, tagged,
           pc, rlClosed, message, sessionLength, index, score, answered >>
trackerVars == << correctAnswers, totalQuestions, topicPerformance, weakAreas,
                  questionHistory, conceptMastery, timeSpent,
                  objectWrites, error, returned, calls, clock >>
parseVars == << content, type, questions, parseError, phase, asked >>
taggerVars == << questionText, tagged >>
menuVars == << pc, rlClosed, message, sessionLength, index, score, answered >>

Agent ==
    [correctAnswers |-> correctAnswers, totalQuestions |-> totalQuestions,
     topicPerformance |-> topicPerformance, weakAreas |-> weakAreas,
     questionHistory |-> questionHistory, conceptMastery |-> conceptMastery,
     timeSpent |-> timeSpent]

\* The trackAnswer arguments explored: two topics sharing concepts, an
\* inherited key as topic, questions with one, two and no vocabulary terms,
\* and timeTaken null, 0 and positive.
QArray == <<"A", "n", " ", "A", "r", "r", "a", "y">>
QArrayLoop == <<"a", "r", "r", "a", "y", " ", "L", "o", "o", "p">>
QNone == <<"J", "S", "?">>

Call(topic, question, isCorrect, timeTaken) ==
    [topic |-> topic, question |-> question, isCorrect |-> isCorrect,
     evaluation |-> IF isCorrect THEN "Correct!" ELSE "Incorrect.",
     timeTaken |-> timeTaken]

Calls ==
    { Call("Arrays", QArray, TRUE, NullTime),
      Call("Arrays", QArray, FALSE, NullTime),
      Call("JS", QArray, TRUE, 5),
      Call("JS", QArray, FALSE, 0),
      Call("Arrays", QArrayLoop, FALSE, 4),
      Call("JS", QArrayLoop, TRUE, 2),
      Call("Arrays", QNone, FALSE, 2),
      Call("constructor", QNone, TRUE, NullTime),
      Call("constructor", QArray, FALSE, NullTime),
      Call("constructor", QNone, FALSE, 5) }

InitTracker ==
    /\ correctAnswers = 0
    /\ totalQuestions = 0
    /\ topicPerformance = << >>
    /\ weakAreas = << >>
    /\ questionHistory = << >>
    /\ conceptMastery = << >>
    /\ timeSpent = << >>
    /\ objectWrites = {}
    /\ error = "none"
    /\ returned = << >>
    /\ calls = << >>
    /\ clock = 1

\* No response is being parsed.
InitParse ==
    /\ content = << >>
    /\ type = <<"m", "c", "q">>
    /\ questions = << >>
    /\ parseError = "none"
    /\ phase = "parsed"
    /\ asked = << >>

\* No question is being tagged.
InitTagger ==
    /\ questionText = << >>
    /\ tagged = << >>

\* mainProgram before its first showMenu().
InitMenu ==
    /\ pc = "menu"
    /\ rlClosed = FALSE
    /\ message = "none"
    /\ sessionLength = 0
    /\ index = 0
    /\ score = 0
    /\ answered = 0

Init == InitTracker /\ InitParse /\ InitTagger /\ InitMenu

TrackAnswer(c) ==
    /\ Len(calls) < MaxAnswers
    /\ \E r \in { trackAnswer(Agent, c.topic, c.question, c.isCorrect,
                                c.evaluation, c.timeTaken, clock) } :
           /\ correctAnswers' = r.agent.correctAnswers
           /\ totalQuestions' = r.agent.totalQuestions
           /\ topicPerformance' = r.agent.topicPerformance
           /\ weakAreas' = r.agent.weakAreas
           /\ questionHistory' = r.agent.questionHistory
           /\ conceptMastery' = r.agent.conceptMastery
           /\ timeSpent' = r.agent.timeSpent
           /\ objectWrites' = objectWrites \cup r.objectWrites
           /\ error' = r.error
    /\ returned' = << >>
    /\ calls' = Append(calls, c)
    /\ clock' = clock + 1
    /\ UNCHANGED << parseVars, taggerVars, menuVars >>

GetPerformanceReport ==
    /\ returned' = << getPerformanceReport(Agent) >>
    /\ error' = "none"
    /\ UNCHANGED << agentVars, objectWrites, calls, clock >>
    /\ UNCHANGED << parseVars, taggerVars, menuVars >>

Next ==
    \/ \E c \in Calls : TrackAnswer(c)
    \/ GetPerformanceReport

Spec == Init /\ [][Next]_vars

\* The response texts explored: every concatenation of at most MaxChunks of
\* these chunks.
Chunks ==
    { QuestionDelimiter, <<"x">>, <<"\n">>, <<" ">>, <<"A", ")", " ", "y", "\n">>,
      <<"C", "o", "r", "r", "e", "c", "t", ":", " ", "B">>, <<"C", "o", "r", "r", "e", "c", "t", ":", "E", ":", "F">>, ModelAnswerDelimiter }

RECURSIVE textsOf(_)
textsOf(n) ==
    IF n = 0 THEN { << >> }
    ELSE textsOf(n - 1) \cup { t \o c : t \in textsOf(n - 1), c \in Chunks }

Types == { <<"m", "c", "q">>, <<"t", "h", "e", "o", "r", "y">> }

InitResponse ==
    /\ InitTracker
    /\ content \in textsOf(MaxChunks)
    /\ type \in Types
    /\ questions = << >>
    /\ parseError = "none"
    /\ phase = "response"
    /\ asked = << >>
    /\ InitTagger
    /\ InitMenu

\* The parsing step of generateQuestions on the response received.
ParseQuestions ==
    /\ phase = "response"
    /\ \E r \in { parseQuestions(content, type) } :
           /\ questions' = r.questions
           /\ parseError' = r.error
    /\ phase' = "parsed"
    /\ UNCHANGED << content, type, asked >>
    /\ UNCHANGED << trackerVars, taggerVars, menuVars >>

NextParse == ParseQuestions

SpecParse == InitResponse /\ [][NextParse]_vars

(***************************************************************************)
(* Properties of the ProgressTrackingAgent (under Spec)                    *)
(***************************************************************************)
Range(s) == { s[i] : i \in 1..Len(s) }

\* The agent a second tracker becomes when it is fed the same trackAnswer
\* arguments, its calls made at other times (from `epoch` on).
RECURSIVE replay(_, _)
replay(cs, epoch) ==
    IF cs = << >> THEN newAgent
    ELSE LET c == cs[Len(cs)]
         IN  trackAnswer(replay(SubSeq(cs, 1, Len(cs) - 1), epoch),
                         c.topic, c.question, c.isCorrect, c.evaluation,
                         c.timeTaken, epoch + Len(cs)).agent

\* C1: after any sequence of trackAnswer calls, correct <= total holds for the
\* overall counters, every topic entry, every global concept entry and every
\* per-topic concept entry.
CorrectNeverExceedsTotal ==
    /\ correctAnswers <= totalQuestions
    /\ \A i \in 1..Len(conceptMastery) :
          conceptMastery[i].correct <= conceptMastery[i].total
    /\ \A i \in 1..Len(topicPerformance) :
          /\ topicPerformance[i].correct <= topicPerformance[i].total
          /\ \A j \in 1..Len(topicPerformance[i].conceptsTests) :
                topicPerformance[i].conceptsTests[j].correct
                    <= topicPerformance[i].conceptsTests[j].total

\* Correct and incorrect answers have both been counted for a concept of a
\* topic, and at least one answer was correct overall.
MixedAnswersCounted ==
    /\ correctAnswers >= 1
    /\ \E i \in 1..Len(topicPerformance) :
          \E j \in 1..Len(topicPerformance[i].conceptsTests) :
             /\ topicPerformance[i].conceptsTests[j].correct >= 1
             /\ topicPerformance[i].conceptsTests[j].correct
                    < topicPerformance[i].conceptsTests[j].total

\* C2: a concept that is in the global weak-area set, or in a topic's
\* weak-area set, is still in it after every step; no topic entry is removed.
WeakAreasNeverShrink ==
    [][ /\ \A c \in Range(weakAreas) : setHas(weakAreas', c)
        /\ \A i \in 1..Len(topicPerformance) :
              /\ i <= Len(topicPerformance')
              /\ topicPerformance'[i].key = topicPerformance[i].key
              /\ \A c \in Range(topicPerformance[i].weakAreas) :
                    setHas(topicPerformance'[i].weakAreas, c) ]_vars

\* A concept is still a weak area, globally and in a topic, although later
\* correct answers have raised its ratio to 0.70 or above.
WeakAreaKeptAfterRecovery ==
    \E c \in Range(weakAreas) :
       /\ 10 * get(conceptMastery, c).correct
              >= WeakAreaTenths * get(conceptMastery, c).total
       /\ \E i \in 1..Len(topicPerformance) :
             setHas(topicPerformance[i].weakAreas, c)

\* C3: a trackAnswer call with isCorrect = false adds to the global weak-area
\* set and to the answered topic's weak-area set exactly the concepts of the
\* question whose global ratio after the call is below 0.70; a call with
\* isCorrect = true changes no weak-area set.
WeakAreaUpdateRule ==
    [][ calls' # calls =>
        LET c == calls'[Len(calls')]
            below == { k \in Range(extractConcepts(c.question)) :
                         /\ hasOwn(conceptMastery', k)
                         /\ 10 * get(conceptMastery', k).correct
                                < WeakAreaTenths * get(conceptMastery', k).total }
            added == IF c.isCorrect THEN {} ELSE below
            before == IF hasOwn(topicPerformance, c.topic)
                      THEN Range(get(topicPerformance, c.topic).weakAreas)
                      ELSE {}
        IN  /\ Range(weakAreas') = Range(weakAreas) \cup added
            /\ (added # {} \/ hasOwn(topicPerformance, c.topic)) =>
                  /\ hasOwn(topicPerformance', c.topic)
                  /\ Range(get(topicPerformance', c.topic).weakAreas)
                        = before \cup added
            /\ \A i \in 1..Len(topicPerformance) :
                  topicPerformance[i].key # c.topic =>
                     topicPerformance'[i].weakAreas = topicPerformance[i].weakAreas
      ]_vars

\* C4: generateRecommendedFocus lists a tracked concept as 'weak' iff it is a
\* weak area with ratio below 0.60, as 'practice' iff it is no weak area and
\* its ratio is below 0.80, lists nothing else, and lists no concept twice.
RecommendationClassification ==
    \A recs \in { generateRecommendedFocus(Agent) } :
       /\ \A i \in 1..Len(recs) :
             hasOwn(conceptMastery, recs[i].concept)
             /\ recs[i].type \in {"weak", "practice"}
       /\ \A k \in 1..Len(conceptMastery) :
             LET e == conceptMastery[k]
                 weak == e.key \in Range(weakAreas)
                 listed(kind) == \E i \in 1..Len(recs) :
                                    recs[i].concept = e.key /\ recs[i].type = kind
             IN  /\ listed("weak") <=>
                       (weak /\ 10 * e.correct < WeakFocusTenths * e.total)
                 /\ listed("practice") <=>
                       (~weak /\ 10 * e.correct < PracticeTenths * e.total)
                 /\ Cardinality({ i \in 1..Len(recs) : recs[i].concept = e.key }) <= 1

\* A report was returned while a weak-area concept has a ratio of 0.60 or more.
ReportWithRecoveringWeakArea ==
    /\ returned # << >>
    /\ \E c \in Range(weakAreas) :
          10 * get(conceptMastery, c).correct
              >= WeakFocusTenths * get(conceptMastery, c).total

\* C5: recommendedFocus is sorted ascending by mastery percentage: each entry's
\* mastery is at most the next entry's, whatever their kinds.
FocusSortedByMastery ==
    \A recs \in { getPerformanceReport(Agent).recommendedFocus } :
       \A i \in 1..(Len(recs) - 1) :
          recs[i].mastery.hundredths <= recs[i + 1].mastery.hundredths

\* A report was returned whose list holds a 'weak' and a 'practice' entry of
\* different mastery.
ReportWithMixedFocus ==
    /\ returned # << >>
    /\ \E i, j \in 1..Len(returned[1].recommendedFocus) :
          /\ returned[1].recommendedFocus[i].type = "weak"
          /\ returned[1].recommendedFocus[j].type = "practice"
          /\ returned[1].recommendedFocus[i].mastery
                # returned[1].recommendedFocus[j].mastery

\* C6: getPerformanceReport changes no field of the tracker, two consecutive
\* calls return equal reports, and the report equals the report of a second
\* tracker fed the same trackAnswer arguments at other times.
ReportIsPure ==
    /\ [][ returned' # << >> => UNCHANGED agentVars ]_vars
    /\ [][ (returned # << >> /\ returned' # << >>) => returned' = returned ]_vars
    /\ [](returned # << >> =>
             returned[1] = getPerformanceReport(replay(calls, clock)))

\* A report was returned after answers that set weak areas and time samples.
ReportAfterAnswers ==
    /\ returned # << >>
    /\ Len(questionHistory) >= 2
    /\ weakAreas # << >>
    /\ timeSpent # << >>

\* C7: on a tracker with zero recorded answers the report has overall.total = 0
\* and a percentage that is a 'no data' sentinel, not the result of 0 / 0.
EmptyReportHasSentinel ==
    (returned # << >> /\ totalQuestions = 0) =>
        /\ error = "none"
        /\ returned[1].overall.total = 0
        /\ ~returned[1].overall.percentage.nan

RECURSIVE sumOf(_, _)
sumOf(entries, field) ==
    IF entries = << >> THEN 0
    ELSE (IF field = "total" THEN Head(entries).total ELSE Head(entries).correct)
         + sumOf(Tail(entries), field)

\* C8: totalQuestions equals the history length and the sum of total over the
\* topic entries, and correctAnswers equals the sum of correct over them.
TotalsMatchHistoryAndTopics ==
    /\ totalQuestions = Len(questionHistory)
    /\ totalQuestions = sumOf(topicPerformance, "total")
    /\ correctAnswers = sumOf(topicPerformance, "correct")

(***************************************************************************)
(* Properties of the parsing step (under SpecParse)                        *)
(***************************************************************************)
\* The segments of a text, stated on positions: a segment starts at 1 or
\* right after an occurrence of the delimiter and ends before the next one.
\* ("Question: " cannot overlap itself, so every occurrence separates.)
occurrences(s) ==
    { i \in 1..(Len(s) - Len(QuestionDelimiter) + 1) :
         SubSeq(s, i, i + Len(QuestionDelimiter) - 1) = QuestionDelimiter }

segmentStarts(s) == {1} \cup { i + Len(QuestionDelimiter) : i \in occurrences(s) }

segmentAt(s, a) ==
    LET ends == { i \in occurrences(s) : i >= a } \cup { Len(s) + 1 }
    IN  SubSeq(s, a, (CHOOSE e \in ends : \A f \in ends : e <= f) - 1)

hasText(s) == \E i \in 1..Len(s) : s[i] \notin WhiteSpace

textStarts(s) == { a \in segmentStarts(s) : hasText(segmentAt(s, a)) }

\* The j-th segment with text, in text order.
textSegment(s, j) ==
    segmentAt(s, CHOOSE a \in textStarts(s) :
                    Cardinality({ b \in textStarts(s) : b < a }) = j - 1)

isSubstring(x, s) ==
    \E a \in 1..(Len(s) + 1) :
       a + Len(x) - 1 <= Len(s) /\ SubSeq(s, a, a + Len(x) - 1) = x

\* C9: the parsing never raises and returns one record per segment that is
\* not whitespace-only, in segment order (each record's question text is
\* taken from its own segment); the empty text gives no record.
OneRecordPerSegment ==
    phase = "parsed" =>
        /\ parseError = "none"
        /\ Len(questions) = Cardinality(textStarts(content))
        /\ \A j \in 1..Len(questions) :
              isSubstring(questions[j].question, textSegment(content, j))
        /\ content = << >> => questions = << >>

\* A text was parsed into two different records and a whitespace-only
\* segment was discarded.
TwoRecordsAndBlankSegment ==
    /\ phase = "parsed"
    /\ Len(questions) = 2
    /\ questions[1].question # questions[2].question
    /\ Cardinality(segmentStarts(content)) > 2

Labels == << "A", "B", "C", "D" >>

\* C10: every MCQ record's correctLabel is absent or one of A, B, C, D, and
\* when present it names a position that exists in the record's options.
CorrectLabelNamesAnOption ==
    (phase = "parsed" /\ questionTypeOf(type) = "multiple-choice") =>
        \A j \in 1..Len(questions) :
           \/ questions[j].correct = << >>
           \/ \E k \in 1..Len(Labels) :
                 /\ questions[j].correct[1] = << Labels[k] >>
                 /\ k - 1 < Len(questions[j].options)

minOf(S) == CHOOSE e \in S : \A f \in S : e <= f

\* C11: for an MCQ segment, correctLabel is the trimmed rest of the first
\* non-empty line that starts with "Correct:", taken after its first colon
\* (further colons included), and is absent iff no line starts with "Correct:".
CorrectLabelIsRestOfLine ==
    (phase = "parsed" /\ questionTypeOf(type) = "multiple-choice") =>
        /\ parseError = "none"
        /\ \A j \in 1..Len(questions) :
              \A lines \in { SelectSeq(split(textSegment(content, j), << "\n" >>),
                                       hasText) } :
                 LET marked == { i \in 1..Len(lines) :
                                    startsWith(lines[i], CorrectPrefix) }
                     line == lines[minOf(marked)]
                 IN  IF marked = {}
                     THEN questions[j].correct = << >>
                     ELSE questions[j].correct =
                            << trim(SubSeq(line, Len(CorrectPrefix) + 1, Len(line))) >>

\* C11 as amended: correctLabel is the trimmed text between the first colon
\* of that line and its next colon (or the end of the line); it is absent
\* iff no non-empty line starts with "Correct:"; the parsing does not raise.
CorrectLabelUpToNextColon ==
    (phase = "parsed" /\ questionTypeOf(type) = "multiple-choice") =>
        /\ parseError = "none"
        /\ \A j \in 1..Len(questions) :
              \A lines \in { SelectSeq(split(textSegment(content, j), << "\n" >>),
                                       hasText) } :
                 LET marked == { i \in 1..Len(lines) :
                                    startsWith(lines[i], CorrectPrefix) }
                     line == lines[minOf(marked)]
                     rest == SubSeq(line, Len(CorrectPrefix) + 1, Len(line))
                     colons == { i \in 1..Len(rest) : rest[i] = ":" }
                                  \cup { Len(rest) + 1 }
                 IN  IF marked = {}
                     THEN questions[j].correct = << >>
                     ELSE questions[j].correct =
                            << trim(SubSeq(rest, 1, minOf(colons) - 1)) >>

\* An MCQ record was parsed from a segment whose "Correct:" line holds a
\* further colon, and another from a segment without such a line.
LabelFromLineWithTwoColons ==
    /\ phase = "parsed"
    /\ questionTypeOf(type) = "multiple-choice"
    /\ isSubstring(<<"C", "o", "r", "r", "e", "c", "t", ":", "E", ":", "F">>, content)
    /\ \E j, k \in 1..Len(questions) :
          /\ questions[j].correct = << <<"E">> >>
          /\ questions[k].correct = << >>

delimiterPositions(seg) ==
    { i \in 1..(Len(seg) - Len(ModelAnswerDelimiter) + 1) :
         SubSeq(seg, i, i + Len(ModelAnswerDelimiter) - 1) = ModelAnswerDelimiter }

\* C12: for a theory segment, text is the trimmed part before the first
\* "Model Answer:" and modelAnswer the trimmed part after it, later
\* occurrences kept verbatim; without the delimiter modelAnswer is empty and
\* text is the whole segment trimmed.
ModelAnswerSplitsAtFirstDelimiter ==
    (phase = "parsed" /\ questionTypeOf(type) = "theoretical") =>
        \A j \in 1..Len(questions) :
           \A seg \in { textSegment(content, j) } :
              LET at == delimiterPositions(seg)
                  p == minOf(at)
              IN  IF at = {}
                  THEN /\ questions[j].question = trim(seg)
                       /\ questions[j].modelAnswer = << >>
                  ELSE /\ questions[j].question = trim(SubSeq(seg, 1, p - 1))
                       /\ questions[j].modelAnswer =
                             trim(SubSeq(seg, p + Len(ModelAnswerDelimiter), Len(seg)))

\* A theory record whose answer holds a further "Model Answer:".
AnswerHoldsDelimiter ==
    /\ phase = "parsed"
    /\ questionTypeOf(type) = "theoretical"
    /\ \E j \in 1..Len(questions) :
          /\ isSubstring(ModelAnswerDelimiter, questions[j].modelAnswer)
          /\ questions[j].question # << >>

(***************************************************************************)
(* Well-formed responses (under SpecWellFormed)                            *)
(***************************************************************************)
\* Number of questions of a well-formed response.
MaxQuestions == 2

\* The texts a well-formed response is written from: one line each, without
\* the markers of the format.
QuestionTexts == { <<"x">>, <<"I", "s", " ", "a", ":", " ", "b", "?">> }
OptionTexts == { << <<"y">>, <<"z">>, <<"y", " ", "z">>, <<"1", ":", "2">> >>,
                 << <<"n", "o">>, <<"y", "e", "s">>, <<"y">>, <<"a", "l", "l", " ", "o", "f", " ", "t", "h", "e", "s", "e">> >> }
AnswerTexts == { <<"y">>, <<"I", "t", " ", "i", "s", ":", " ", "z", ".">> }
Separators == { <<"\n">>, <<"\n", "\n">> }

McqForms ==
    [text : QuestionTexts, options : OptionTexts, label : Range(Labels)]
TheoryForms == [text : QuestionTexts, answer : AnswerTexts]

RECURSIVE blocksOf(_, _)
blocksOf(forms, n) ==
    IF n = 0 THEN { << >> }
    ELSE blocksOf(forms, n - 1)
         \cup { Append(b, f) : b \in blocksOf(forms, n - 1), f \in forms }

\* "Question: <text>\nA) ...\nB) ...\nC) ...\nD) ...\nCorrect: <A|B|C|D>"
writeMcq(f) ==
    QuestionDelimiter \o f.text
    \o join([i \in 1..4 |-> <<"\n">> \o << Labels[i] >> \o <<")", " ">> \o f.options[i]], << >>)
    \o <<"\n">> \o CorrectPrefix \o <<" ">> \o << f.label >>

\* "Question: <text>\nModel Answer: <text>"
writeTheory(f) ==
    QuestionDelimiter \o f.text \o <<"\n">> \o ModelAnswerDelimiter \o <<" ">> \o f.answer

writeBlock(forms, questionType, separator) ==
    join([i \in 1..Len(forms) |->
            IF questionType = "multiple-choice" THEN writeMcq(forms[i])
            ELSE writeTheory(forms[i])], separator)

InitWellFormed ==
    /\ InitTracker
    /\ type \in Types
    /\ asked \in blocksOf(IF questionTypeOf(type) = "multiple-choice"
                           THEN McqForms ELSE TheoryForms, MaxQuestions)
    /\ content \in { writeBlock(asked, questionTypeOf(type), s) : s \in Separators }
    /\ questions = << >>
    /\ parseError = "none"
    /\ phase = "response"
    /\ InitTagger
    /\ InitMenu

SpecWellFormed == InitWellFormed /\ [][NextParse]_vars

\* C13: a block of N well-formed questions is parsed into exactly N records;
\* an mcq record has its 4 option lines in source order and its label among
\* A-D; a theory record has non-empty text and non-empty modelAnswer (those
\* written).
WellFormedBlockParsed ==
    phase = "parsed" =>
        /\ parseError = "none"
        /\ Len(questions) = Len(asked)
        /\ \A j \in 1..Len(asked) :
              j <= Len(questions) =>
              IF questionTypeOf(type) = "multiple-choice"
              THEN /\ questions[j].question = asked[j].text
                   /\ Len(questions[j].options) = 4
                   /\ \A i \in 1..4 :
                         i <= Len(questions[j].options) =>
                         questions[j].options[i]
                            = << Labels[i] >> \o <<")", " ">> \o asked[j].options[i]
                   /\ questions[j].correct = << << asked[j].label >> >>
                   /\ asked[j].label \in Range(Labels)
              ELSE /\ questions[j].question = asked[j].text
                   /\ questions[j].question # << >>
                   /\ questions[j].modelAnswer = asked[j].answer
                   /\ questions[j].modelAnswer # << >>

\* A well-formed mcq block of two questions with different labels was parsed.
TwoWellFormedQuestionsParsed ==
    /\ phase = "parsed"
    /\ questionTypeOf(type) = "multiple-choice"
    /\ Len(asked) = 2
    /\ asked[1].label # asked[2].label
    /\ Len(questions) = 2

(***************************************************************************)
(* extractConcepts on its own (under SpecConcepts)                         *)
(***************************************************************************)
\* Number of pieces a question text is put together from.
MaxPieces == 4

Pieces == { <<"a", "r", "r", "a", "y">>, <<"L", "o", "o", "p">>, <<"s">>, <<" ">>, <<"\t">>, <<"\n">> }

RECURSIVE piecesOf(_)
piecesOf(n) ==
    IF n = 0 THEN { << >> }
    ELSE piecesOf(n - 1) \cup { t \o p : t \in piecesOf(n - 1), p \in Pieces }

InitConcepts ==
    /\ InitTracker
    /\ InitParse
    /\ InitMenu
    /\ questionText \in piecesOf(MaxPieces)
    /\ tagged = << >>

\* concepts = this.extractConcepts(question)
ExtractConcepts ==
    /\ tagged = << >>
    /\ tagged' = << extractConcepts(questionText) >>
    /\ UNCHANGED << questionText, trackerVars, parseVars, menuVars >>

NextConcepts == ExtractConcepts

SpecConcepts == InitConcepts /\ [][NextConcepts]_vars

\* The vocabulary terms standing in the lower-cased text as whole tokens,
\* tokens being delimited by white space or the ends of the text.
wholeTokenTerms(text) ==
    LET lower == toLowerCase(text)
        n == Len(lower)
    IN  { t \in Range(technicalTerms) :
            \E i \in 1..n :
               /\ i + Len(t) - 1 <= n
               /\ SubSeq(lower, i, i + Len(t) - 1) = t
               /\ i = 1 \/ lower[i - 1] \in WhiteSpace
               /\ i + Len(t) - 1 = n \/ lower[i + Len(t)] \in WhiteSpace }

\* C14: extractConcepts returns exactly the vocabulary terms that occur in
\* the lower-cased text as whole tokens when it is split on white space
\* (spaces, tabs and newlines alike), each once, and no term that is only
\* part of a longer token.
ConceptsAreWhiteSpaceTokens ==
    tagged # << >> =>
        /\ Range(tagged[1]) = wholeTokenTerms(questionText)
        /\ Cardinality(Range(tagged[1])) = Len(tagged[1])

(***************************************************************************)
(* mainProgram: the menu loop and its sessions (under SpecSession)         *)
(***************************************************************************)
\* Largest questions.length of a generated session.
MaxSession == 3

responseVars == << content, questions, parseError, phase, asked >>
loopVars == << sessionLength, index, score, answered >>

\* askQuestion (rl.question) once rl.close() was called: depending on the
\* Node version the call throws or its callback is never called and the
\* process runs out of work.  thrownTo is where a throw ends up.
askQuestionAfterClose(thrownTo, thrownMessage) ==
    \/ /\ pc' = thrownTo
       /\ message' = thrownMessage
    \/ /\ pc' = "ended"
       /\ message' = message

\* A rejected promise in mainProgram, which has no try/catch and whose call
\* has no catch: the rejection is reported by the runtime, the loop is over.
unhandledRejection ==
    /\ pc' = "crashed"
    /\ message' = "unhandled rejection"

\* case 0: startInterview() up to the call of generateQuestions
StartInterview(validNumber, selectedType) ==
    /\ pc = "menu"
    /\ IF rlClosed
       THEN /\ askQuestionAfterClose("menu", "An error occurred")
            /\ rlClosed' = TRUE
            /\ type' = type
       ELSE IF validNumber
       THEN /\ pc' = "generating"
            /\ message' = "Generating questions"
            /\ rlClosed' = FALSE
            /\ type' = selectedType
       ELSE /\ pc' = "menu"
            /\ message' = "Invalid number of questions"
            /\ rlClosed' = TRUE
            /\ type' = type
    /\ UNCHANGED << loopVars, responseVars, trackerVars, taggerVars >>

\* const questions = await generateQuestions(topic, numQuestions, type)
InterviewGenerated(ok, length) ==
    /\ pc = "generating"
    /\ IF ok
       THEN /\ pc' = "asking"
            /\ sessionLength' = length
            /\ index' = 0
            /\ score' = 0
            /\ UNCHANGED << message, rlClosed >>
       ELSE /\ pc' = "menu"
            /\ message' = "An error occurred"
            /\ rlClosed' = TRUE
            /\ UNCHANGED << sessionLength, index, score >>
    /\ UNCHANGED << answered, type, responseVars, trackerVars, taggerVars >>

\* answer.toLowerCase() === "skip": continue
InterviewSkip ==
    /\ pc = "asking"
    /\ index < sessionLength
    /\ index' = index + 1
    /\ message' = "Question skipped"
    /\ UNCHANGED << pc, rlClosed, sessionLength, score, answered, type,
                    responseVars, trackerVars, taggerVars >>

\* evaluation = await evaluateAnswers(...); score++ on 'Correct!' (mcq)
InterviewAnswer(ok, correct) ==
    /\ pc = "asking"
    /\ index < sessionLength
    /\ IF ok
       THEN /\ index' = index + 1
            /\ score' = IF type = <<"m", "c", "q">> /\ correct THEN score + 1 ELSE score
            /\ answered' = answered + 1
            /\ message' = "Evaluation"
            /\ UNCHANGED << pc, rlClosed >>
       ELSE /\ pc' = "menu"
            /\ message' = "An error occurred"
            /\ rlClosed' = TRUE
            /\ UNCHANGED << index, score, answered >>
    /\ UNCHANGED << sessionLength, type, responseVars, trackerVars, taggerVars >>

\* after the loop: final results, "Interview session completed.", rl.close()
InterviewCompleted ==
    /\ pc = "asking"
    /\ index = sessionLength
    /\ pc' = "menu"
    /\ message' = "Interview session completed"
    /\ rlClosed' = TRUE
    /\ UNCHANGED << loopVars, type, responseVars, trackerVars, taggerVars >>

\* case 1: analysis = await analyzeTopicAgent(topicToAnalyze)
AnalyzeTopic(ok) ==
    /\ pc = "menu"
    /\ IF rlClosed
       THEN askQuestionAfterClose("crashed", "unhandled rejection")
       ELSE IF ok
       THEN /\ pc' = "menu"
            /\ message' = "Topic Analysis"
       ELSE unhandledRejection
    /\ UNCHANGED << rlClosed, loopVars, type, responseVars, trackerVars,
                    taggerVars >>

\* case 2: resources = await resourceProviderAgent(topicForResources, weakAreas)
LearningResources(ok) ==
    /\ pc = "menu"
    /\ IF rlClosed
       THEN askQuestionAfterClose("crashed", "unhandled rejection")
       ELSE IF ok
       THEN /\ pc' = "menu"
            /\ message' = "Learning Resources"
       ELSE unhandledRejection
    /\ UNCHANGED << rlClosed, loopVars, type, responseVars, trackerVars,
                    taggerVars >>

\* case 3: report = progressAgent.getPerformanceReport(), then askQuestion
CheckPerformance ==
    /\ pc = "menu"
    /\ returned' = << getPerformanceReport(Agent) >>
    /\ IF rlClosed
       THEN askQuestionAfterClose("crashed", "unhandled rejection")
       ELSE /\ pc' = "menu"
            /\ message' = "Performance Report"
    /\ UNCHANGED << agentVars, objectWrites, error, calls, clock, rlClosed,
                    loopVars, type, responseVars, taggerVars >>

\* case 4 up to the call of generateQuestions(topic, numQuestions, 'mcq')
StartPractice ==
    /\ pc = "menu"
    /\ IF rlClosed
       THEN askQuestionAfterClose("crashed", "unhandled rejection")
       ELSE /\ pc' = "practiceGenerating"
            /\ message' = "Generating focused practice questions"
    /\ UNCHANGED << rlClosed, loopVars, type, responseVars, trackerVars,
                    taggerVars >>

\* const questions = await generateQuestions(topic, numQuestions, 'mcq')
PracticeGenerated(ok, length) ==
    /\ pc = "practiceGenerating"
    /\ IF ok
       THEN /\ pc' = "practising"
            /\ sessionLength' = length
            /\ index' = 0
            /\ message' = message
       ELSE /\ unhandledRejection
            /\ UNCHANGED << sessionLength, index >>
    /\ UNCHANGED << rlClosed, score, answered, type, responseVars,
                    trackerVars, taggerVars >>

\* one turn of the practice loop: hint on request, answer, evaluation
PracticeAnswer(ok) ==
    /\ pc = "practising"
    /\ index < sessionLength
    /\ IF ok
       THEN /\ index' = index + 1
            /\ message' = "Evaluation"
            /\ pc' = pc
       ELSE /\ unhandledRejection
            /\ index' = index
    /\ UNCHANGED << rlClosed, sessionLength, score, answered, type,
                    responseVars, trackerVars, taggerVars >>

\* after the practice loop: "Press Enter to continue..."
PracticeCompleted ==
    /\ pc = "practising"
    /\ index = sessionLength
    /\ pc' = "menu"
    /\ message' = "Press Enter to continue"
    /\ UNCHANGED << rlClosed, loopVars, type, responseVars, trackerVars,
                    taggerVars >>

\* case 5: running = false; rl.close()
Exit ==
    /\ pc = "menu"
    /\ pc' = "exited"
    /\ message' = "Thank you"
    /\ rlClosed' = TRUE
    /\ UNCHANGED << loopVars, type, responseVars, trackerVars, taggerVars >>

NextSession ==
    \/ \E v \in BOOLEAN, t \in Types : StartInterview(v, t)
    \/ \E ok \in BOOLEAN, n \in 0..MaxSession : InterviewGenerated(ok, n)
    \/ InterviewSkip
    \/ \E ok \in BOOLEAN, c \in BOOLEAN : InterviewAnswer(ok, c)
    \/ InterviewCompleted
    \/ \E ok \in BOOLEAN : AnalyzeTopic(ok)
    \/ \E ok \in BOOLEAN : LearningResources(ok)
    \/ CheckPerformance
    \/ StartPractice
    \/ \E ok \in BOOLEAN, n \in 0..MaxSession : PracticeGenerated(ok, n)
    \/ \E ok \in BOOLEAN : PracticeAnswer(ok)
    \/ PracticeCompleted
    \/ Exit

SpecSession == Init /\ [][NextSession]_vars

\* C15: every answered (not skipped) question of an interview session is
\* recorded by trackAnswer before the next question is presented, so the
\* tracker read by 'Check Previous Performance' has counted each of them.
EveryAnswerTracked ==
    pc \in {"asking", "menu"} => totalQuestions = answered

\* C16: a failed generation call, in a new interview session or in focused
\* practice, aborts the request with a visible message, leaves the menu loop
\* running and the tracker as it was.
GenerationFailureKeepsMenu ==
    [][ /\ pc \in {"generating", "practiceGenerating"}
        /\ pc' \notin {"asking", "practising"}
        => /\ pc' = "menu"
           /\ message' \in {"An error occurred", "unhandled rejection"}
           /\ UNCHANGED agentVars ]_vars

(***************************************************************************)
(* Weak areas and the history of the ratios (under Spec)                   *)
(***************************************************************************)
\* The concept's global ratio is below 0.70 in the agent.
ratioBelowWeak(agent, concept) ==
    /\ hasOwn(agent.conceptMastery, concept)
    /\ belowWeakThreshold(get(agent.conceptMastery, concept))

\* C17: a concept is in the global weak-area set if and only if its global
\* ratio was below 0.70 right after at least one of the trackAnswer calls made
\* so far, correct or incorrect; and every weak-area concept has a concept
\* entry with correct < total.
WeakAreaIffRatioWasBelow ==
    /\ \A k \in Range(technicalTerms) :
          setHas(weakAreas, k)
             <=> \E n \in 1..Len(calls) :
                    ratioBelowWeak(replay(SubSeq(calls, 1, n), 0), k)
    /\ \A i \in 1..Len(weakAreas) :
          /\ hasOwn(conceptMastery, weakAreas[i])
          /\ get(conceptMastery, weakAreas[i]).correct
                < get(conceptMastery, weakAreas[i]).total

====
